---- MODULE Spec2Model ----
(***************************************************************************)
(* Match orchestration and scoring engine of jaysgame: the phase state     *)
(* machine (state-machine.service.ts), answer submission and scoring       *)
(* (answer.service.ts, player.handler.ts), reveal (reveal.service.ts) and  *)
(* the question model (question.service.ts), as concurrent request         *)
(* handlers over the Redis state blob and the Postgres ledger.  Every      *)
(* await on Redis or Postgres is one step of a handler.                    *)
(***************************************************************************)
EXTENDS Integers, Sequences, FiniteSets, TLC

\* ---------------------------------------------------------------- bounds
NumHandlers == 2
NumPlayers == 2
MaxCommands == 3
MaxSubmits == 2
MaxTicks == 1

Handlers == 1..NumHandlers
Players == 1..NumPlayers

\* ------------------------------------------------------- optional values
None == <<>>
Some(x) == <<x>>
IsSome(o) == Len(o) > 0
Get(o) == o[1]

\* ------------------------------------------------------------- the match
MatchId == "m1"
\* the users a socket may be authenticated as; the first created the match
HostUser == "u1"
Users == {"u1", "u2"}
TimerSecs == {5}
StretchMs == 30000
TickSteps == {1250, StretchMs}
Latencies == {1250, 1251}

\* ------------------------------------------------------------- questions
NoIndex == 0 - 1
NoValue == 0 - 1

\* A pack question; fields a type does not use hold "" / <<>> / NoIndex.
\* correctAnswer is "true"/"false" for a boolean and "" when it is missing.
Q(type, text, choices, correctIndex, correctAnswer, correctValue, mediaUrl) ==
    [type |-> type, text |-> text, choices |-> choices,
     correctIndex |-> correctIndex, correctAnswer |-> correctAnswer,
     correctValue |-> correctValue, mediaUrl |-> mediaUrl]

QMc == Q("mc", "who", <<"A", "B">>, 0, "", NoValue, "")
QTf == Q("tf", "is it", <<>>, NoIndex, "true", NoValue, "")
QClosest == Q("closest", "how many", <<>>, NoIndex, "", 54, "")
QBlank == Q("mc", " ", <<"A", "B">>, 0, "", NoValue, "")
QBadIndex == Q("mc", "who", <<"A", "B">>, 2, "", NoValue, "")

PackMain == << <<QMc, QTf>>, <<QMc>> >>
PackBlank == << <<QBlank, QMc>> >>
PackSolo == << <<QMc>> >>
PackClosest == << <<QClosest>> >>
\* a multiple choice and a closest question in one inning
PackMixed == << <<QMc, QClosest>> >>
\* the second question fails validation
PackBad == << <<QMc, QBadIndex>> >>
\* seven and eight innings of one question: the stretch follows inning index 6
PackSeven == [i \in 1..7 |-> <<QMc>>]
PackEight == [i \in 1..8 |-> <<QMc>>]
PackSet == {PackMain, PackBlank, PackSolo, PackClosest, PackBad, PackSeven, PackEight}

\* text.trim().length === 0
IsBlank(text) == text \in {"", " "}

\* String.prototype.toLowerCase over the strings the model submits
Lower(s) ==
    CASE s = "True" -> "true"
      [] s = "False" -> "false"
      [] s = "TRUE" -> "true"
      [] OTHER -> s

\* parseFloat over the strings the model submits; NaN is None
ParseFloat(s) ==
    CASE s = "54" -> Some(54)
      [] s = "50" -> Some(50)
      [] s = "58" -> Some(58)
      [] OTHER -> None

validateQuestion(q) ==
    IF IsBlank(q.text) THEN FALSE
    ELSE CASE q.type = "mc" ->
                /\ Len(q.choices) >= 2
                /\ ~(q.correctIndex < 0 \/ q.correctIndex >= Len(q.choices))
           [] q.type = "media" ->
                /\ q.mediaUrl # ""
                /\ Len(q.choices) >= 2
                /\ ~(q.correctIndex < 0 \/ q.correctIndex >= Len(q.choices))
           [] q.type = "tf" -> q.correctAnswer \in {"true", "false"}
           [] q.type = "closest" -> q.correctValue # NoValue
           [] OTHER -> FALSE

\* choices[correctIndex] with a 0-based index; undefined is ""
ChoiceAt(q) ==
    IF q.correctIndex >= 0 /\ q.correctIndex < Len(q.choices)
    THEN q.choices[q.correctIndex + 1] ELSE ""

isAnswerCorrect(q, answer) ==
    CASE q.type \in {"mc", "media"} -> ChoiceAt(q) = answer
      [] q.type = "tf" -> Lower(answer) = Lower(q.correctAnswer)
      [] OTHER -> FALSE

\* The id is `${matchId}-${inning}-${questionIdx}`, kept as its '-' parts.
QuestionId(matchId, inning, questionIdx) == <<matchId, inning, questionIdx>>
ParseInning(questionId) == questionId[Len(questionId) - 1]
ParseQuestionIdx(questionId) == questionId[Len(questionId)]

formatQuestion(matchId, q, inning, questionIdx, timerSec) ==
    [id |-> QuestionId(matchId, inning, questionIdx), type |-> q.type,
     text |-> q.text, timerSec |-> timerSec, inning |-> inning,
     questionIdx |-> questionIdx,
     choices |-> CASE q.type \in {"mc", "media"} -> q.choices
                   [] q.type = "tf" -> <<"True", "False">>
                   [] OTHER -> <<>>]

\* innings[i]?.questions[j] with 0-based indices; undefined is None
QuestionAt(pk, i, j) ==
    IF i >= 0 /\ i < Len(pk) /\ j >= 0 /\ j < Len(pk[i + 1])
    THEN Some(pk[i + 1][j + 1]) ELSE None

\* ------------------------------------------------------------------ state
VARIABLES
    pack,       \* Pack.innings of the match's pack
    settings,   \* Match.settings
    sender,     \* socket.data.user of the socket the host commands come from
    expired,    \* the key match:<id>:state is gone: its 24 h TTL has run out
    match,      \* the durable Match row: status, startedAt, endedAt
    state,      \* the Redis blob match:<id>:state
    paused,     \* the Redis key match:<id>:paused
    ledger,     \* the MatchAnswer table
    cache,      \* the Redis sets match:<id>:answers:<inning>:<question>
    players,    \* the MatchPlayer table
    timers,     \* pending setTimeout callbacks
    emitted,    \* everything sent to the room or to a socket
    now,        \* Date.now()
    ticks,      \* clock steps taken
    issued,     \* commands received so far
    pc,         \* per handler: the await it is suspended at
    req,        \* per handler: the command and its payload
    mem,        \* per handler: this.state of its MatchStateMachine
    tmp,        \* per handler: the other locals
    log         \* how each command ended

vars == <<pack, settings, sender, expired, match, state, paused, ledger, cache, players,
          timers, emitted, now, ticks, issued, pc, req, mem, tmp, log>>

store == <<match, state, paused, ledger, cache, players, timers>>
fixed == <<pack, settings, sender, expired>>
clock == <<now, ticks>>

\* initializeMatchState
InitialState(pk) ==
    [phase |-> "lobby", inning |-> 0, questionIdx |-> 0,
     question |-> None, endsAt |-> None,
     lineScore |-> [i \in 1..Len(pk) |-> None],
     leaderboard |-> <<>>, players |-> <<>>]

NoReq == [op |-> "none", cmd |-> 0]
NoTmp == [none |-> TRUE]

\* socketId null
NoSocket == 0
\* the id of the socket command cmd arrives on; the players of the initial
\* roster are connected on sockets 1..NumPlayers, and no socket disconnects
SocketOf(cmd) == NumPlayers + cmd

PlayerRow(p) == [id |-> p, nickname |-> p, socketId |-> p, left |-> FALSE]

Init ==
    /\ pack \in PackSet
    /\ settings \in [grandSlam : BOOLEAN, speedBonus : BOOLEAN, timerSec : TimerSecs]
    /\ sender \in Users
    /\ expired = FALSE
    /\ match = [status |-> "LOBBY", startedAt |-> None, endedAt |-> None]
    /\ state = [InitialState(pack) EXCEPT
                   !.players = [i \in 1..NumPlayers |->
                                   [id |-> i, nickname |-> i, socketId |-> i]]]
    /\ paused = FALSE
    /\ ledger = {}
    /\ cache = {}
    /\ players = {PlayerRow(p) : p \in Players}
    /\ timers = {}
    /\ emitted = {}
    /\ now = 0
    /\ ticks = 0
    /\ issued = 0
    /\ pc = [h \in Handlers |-> "idle"]
    /\ req = [h \in Handlers |-> NoReq]
    /\ mem = [h \in Handlers |-> InitialState(pack)]
    /\ tmp = [h \in Handlers |-> NoTmp]
    /\ log = {}

\* ---------------------------------------------------------------- helpers
CanIssue(h) == pc[h] = "idle" /\ issued < MaxCommands

\* A handler takes command r: its synchronous prefix up to the first await.
Begin(h, r, label) ==
    /\ issued' = issued + 1
    /\ req' = [req EXCEPT ![h] = r]
    /\ pc' = [pc EXCEPT ![h] = label]

\* The handler resumes and suspends again at `label`.
Goto(h, label) == pc' = [pc EXCEPT ![h] = label]

\* The ledger key a submission is for; <<>> for the other commands.
ReqKey(r) ==
    IF r.op = "submit"
    THEN <<r.playerId, ParseInning(r.questionId), ParseQuestionIdx(r.questionId)>>
    ELSE <<>>

LogEntry(r, outcome) ==
    [cmd |-> r.cmd, op |-> r.op, key |-> ReqKey(r), outcome |-> outcome]

\* The handler returns: outcome "ok", or the error its catch block reports.
Finish(h, outcome) ==
    /\ pc' = [pc EXCEPT ![h] = "idle"]
    /\ req' = [req EXCEPT ![h] = NoReq]
    /\ mem' = [mem EXCEPT ![h] = InitialState(pack)]
    /\ tmp' = [tmp EXCEPT ![h] = NoTmp]
    /\ log' = log \cup {LogEntry(req[h], outcome)}

\* The command fails in its first step, before anything is kept.
Reject(h, r, outcome) ==
    /\ issued' = issued + 1
    /\ log' = log \cup {LogEntry(r, outcome)}
    /\ UNCHANGED <<pc, req, mem, tmp>>

Emit(events) == emitted' = emitted \cup events

\* io.to(matchId).emit('state:update', this.state)
StateUpdate(cmd, st) == [type |-> "state:update", cmd |-> cmd, state |-> st]
\* io.to(matchId).emit('question:show', {question, endsAt})
QuestionShow(cmd, st) ==
    [type |-> "question:show", cmd |-> cmd, question |-> st.question,
     endsAt |-> st.endsAt]

NextCmd == issued + 1

\* ------------------------------------------------------------- startMatch
\* startMatch without its phase check
StartLoadAnyPhase(h) ==
    /\ CanIssue(h)
    /\ Begin(h, [op |-> "start", cmd |-> NextCmd], "start_update")
    /\ mem' = [mem EXCEPT ![h] = state]
    /\ UNCHANGED <<tmp, log>>
    /\ UNCHANGED <<fixed, store, emitted, clock>>

\* loadState and the phase check; match.findUnique reads only the pack and
\* the settings, which never change.
StartLoad(h) ==
    /\ CanIssue(h)
    /\ LET r == [op |-> "start", cmd |-> NextCmd] IN
       IF state.phase # "lobby"
       THEN /\ Reject(h, r, "Match can only be started from lobby phase")
       ELSE /\ Begin(h, r, "start_update")
            /\ mem' = [mem EXCEPT ![h] = state]
            /\ UNCHANGED <<tmp, log>>
    /\ UNCHANGED <<fixed, store, emitted, clock>>

\* prisma.match.update, then the in-memory move to the first question and
\* its validation, up to the await inside saveState.
StartUpdate(h) ==
    /\ pc[h] = "start_update"
    /\ match' = [match EXCEPT !.status = "IN_PROGRESS", !.startedAt = Some(now)]
    /\ LET question == pack[1][1] IN
       IF ~validateQuestion(question)
       THEN /\ Finish(h, "Invalid question")
            /\ UNCHANGED issued
       ELSE /\ mem' = [mem EXCEPT ![h] =
                  [@ EXCEPT !.inning = 0, !.questionIdx = 0, !.phase = "question",
                            !.question = Some(formatQuestion(MatchId, question, 0, 0,
                                                             settings.timerSec)),
                            !.endsAt = Some(now + settings.timerSec * 1000)]]
            /\ Goto(h, "start_save")
            /\ UNCHANGED <<req, tmp, log, issued>>
    /\ UNCHANGED <<fixed, state, paused, ledger, cache, players, timers, emitted, clock>>

\* redisClient.setex of the blob and the two broadcasts
StartSave(h) ==
    /\ pc[h] = "start_save"
    /\ state' = mem[h]
    /\ Emit({StateUpdate(req[h].cmd, mem[h]), QuestionShow(req[h].cmd, mem[h])})
    /\ Finish(h, "ok")
    /\ UNCHANGED <<fixed, match, paused, ledger, cache, players, timers, clock, issued>>

\* ----------------------------------------------------------- nextQuestion
\* skipQuestion: loadState and the phase check
SkipLoad(h) ==
    /\ CanIssue(h)
    /\ LET r == [op |-> "skip", cmd |-> NextCmd] IN
       IF state.phase \in {"question", "reveal"}
       THEN /\ Begin(h, r, "nq_load")
            /\ mem' = [mem EXCEPT ![h] = state]
            /\ UNCHANGED <<tmp, log>>
       ELSE /\ Reject(h, r, "Can only skip during question or reveal phase")
    /\ UNCHANGED <<fixed, store, emitted, clock>>

\* nextQuestion giving the question shown no time: the deadline is now
NqStepNoTimer(h, st) ==
    LET currentInning == st.inning
        currentQuestionIdx == st.questionIdx
        lastOfInning == currentQuestionIdx + 1 >= Len(pack[currentInning + 1])
        moved == IF lastOfInning
                 THEN [st EXCEPT !.inning = currentInning + 1, !.questionIdx = 0]
                 ELSE [st EXCEPT !.questionIdx = currentQuestionIdx + 1]
        question == pack[moved.inning + 1][moved.questionIdx + 1]
    IN  IF lastOfInning /\ currentInning + 1 >= Len(pack)
        THEN /\ mem' = [mem EXCEPT ![h] = st]
             /\ Goto(h, "end_load")
             /\ UNCHANGED <<req, tmp, log>>
        ELSE IF lastOfInning /\ currentInning = 6
        THEN /\ mem' = [mem EXCEPT ![h] = st]
             /\ Goto(h, "ts_load")
             /\ UNCHANGED <<req, tmp, log>>
        ELSE IF ~validateQuestion(question)
        THEN /\ Finish(h, "Invalid question")
        ELSE /\ mem' = [mem EXCEPT ![h] =
                   [moved EXCEPT !.phase = "question",
                                 !.question = Some(formatQuestion(MatchId, question,
                                     moved.inning, moved.questionIdx, settings.timerSec)),
                                 !.endsAt = Some(now)]]
             /\ Goto(h, "nq_save")
             /\ UNCHANGED <<req, tmp, log>>

\* nextQuestion from its loadState to the await of saveState, endMatch or
\* triggerStretch: st is the blob just read.
NqStep(h, st) ==
    LET currentInning == st.inning
        currentQuestionIdx == st.questionIdx
        lastOfInning == currentQuestionIdx + 1 >= Len(pack[currentInning + 1])
        moved == IF lastOfInning
                 THEN [st EXCEPT !.inning = currentInning + 1, !.questionIdx = 0]
                 ELSE [st EXCEPT !.questionIdx = currentQuestionIdx + 1]
        question == pack[moved.inning + 1][moved.questionIdx + 1]
    IN  IF lastOfInning /\ currentInning + 1 >= Len(pack)
        THEN /\ mem' = [mem EXCEPT ![h] = st]
             /\ Goto(h, "end_load")
             /\ UNCHANGED <<req, tmp, log>>
        ELSE IF lastOfInning /\ currentInning = 6
        THEN /\ mem' = [mem EXCEPT ![h] = st]
             /\ Goto(h, "ts_load")
             /\ UNCHANGED <<req, tmp, log>>
        ELSE IF ~validateQuestion(question)
        THEN /\ Finish(h, "Invalid question")
        ELSE /\ mem' = [mem EXCEPT ![h] =
                   [moved EXCEPT !.phase = "question",
                                 !.question = Some(formatQuestion(MatchId, question,
                                     moved.inning, moved.questionIdx, settings.timerSec)),
                                 !.endsAt = Some(now + settings.timerSec * 1000)]]
             /\ Goto(h, "nq_save")
             /\ UNCHANGED <<req, tmp, log>>

\* nextQuestion saving the moved question index before it validates
NqLoadSavesFirst(h) ==
    /\ pc[h] = "nq_load"
    /\ NqStep(h, state)
    /\ state' = IF state.questionIdx + 1 < Len(pack[state.inning + 1])
                THEN [state EXCEPT !.questionIdx = @ + 1] ELSE state
    /\ UNCHANGED <<fixed, match, paused, ledger, cache, players, timers, emitted,
                   clock, issued>>

NqLoad(h) ==
    /\ pc[h] = "nq_load"
    /\ NqStep(h, state)
    /\ UNCHANGED <<fixed, store, emitted, clock, issued>>

NqSave(h) ==
    /\ pc[h] = "nq_save"
    /\ state' = mem[h]
    /\ Emit({StateUpdate(req[h].cmd, mem[h]), QuestionShow(req[h].cmd, mem[h])})
    /\ Finish(h, "ok")
    /\ UNCHANGED <<fixed, match, paused, ledger, cache, players, timers, clock, issued>>

\* --------------------------------------------------------------- endMatch
EndLoad(h) ==
    /\ pc[h] = "end_load"
    /\ mem' = [mem EXCEPT ![h] =
          [state EXCEPT !.phase = "postgame", !.question = None, !.endsAt = None]]
    /\ Goto(h, "end_save")
    /\ UNCHANGED <<fixed, store, emitted, clock, issued, req, tmp, log>>

EndSave(h) ==
    /\ pc[h] = "end_save"
    /\ state' = mem[h]
    /\ Goto(h, "end_update")
    /\ UNCHANGED <<fixed, match, paused, ledger, cache, players, timers, emitted,
                   clock, issued, req, mem, tmp, log>>

\* io.to(matchId).emit('match:end', {finalScores, mvp})
MatchEnd(cmd, st) ==
    [type |-> "match:end", cmd |-> cmd, finalScores |-> st.leaderboard,
     mvp |-> IF Len(st.leaderboard) > 0 THEN Some(st.leaderboard[1].playerId) ELSE None]

EndUpdate(h) ==
    /\ pc[h] = "end_update"
    /\ match' = [match EXCEPT !.status = "COMPLETED", !.endedAt = Some(now)]
    /\ Emit({StateUpdate(req[h].cmd, mem[h]), MatchEnd(req[h].cmd, mem[h])})
    /\ Finish(h, "ok")
    /\ UNCHANGED <<fixed, state, paused, ledger, cache, players, timers, clock, issued>>

\* --------------------------------------------------------- triggerStretch
\* loadState up to the await of saveState: st is the blob just read.
TsStep(h, st) ==
    /\ mem' = [mem EXCEPT ![h] =
          [st EXCEPT !.phase = "stretch", !.endsAt = Some(now + StretchMs)]]

\* the host's 'stretch' action
StretchLoad(h) ==
    /\ CanIssue(h)
    /\ Begin(h, [op |-> "stretch", cmd |-> NextCmd], "ts_save")
    /\ TsStep(h, state)
    /\ UNCHANGED <<fixed, store, emitted, clock, tmp, log>>

\* triggerStretch called by nextQuestion
TsLoad(h) ==
    /\ pc[h] = "ts_load"
    /\ TsStep(h, state)
    /\ Goto(h, "ts_save")
    /\ UNCHANGED <<fixed, store, emitted, clock, issued, req, tmp, log>>

StretchStart(cmd) == [type |-> "stretch:start", cmd |-> cmd, durationSec |-> 30]

\* saveState, the broadcasts and setTimeout(..., 30000)
TsSave(h) ==
    /\ pc[h] = "ts_save"
    /\ state' = mem[h]
    /\ Emit({StateUpdate(req[h].cmd, mem[h]), StretchStart(req[h].cmd)})
    /\ timers' = timers \cup {[by |-> req[h].cmd, fireAt |-> now + StretchMs]}
    /\ Finish(h, "ok")
    /\ UNCHANGED <<fixed, match, paused, ledger, cache, players, clock, issued>>

\* the callback with its two assignments saved as they are, without the
\* loadState of nextQuestion
TimerFireAssigns(h) ==
    /\ pc[h] = "idle"
    /\ \E t \in timers :
          /\ now >= t.fireAt
          /\ timers' = timers \ {t}
    /\ Begin(h, [op |-> "timer", cmd |-> NextCmd], "nq_save")
    /\ mem' = [mem EXCEPT ![h] = [state EXCEPT !.inning = 7, !.questionIdx = 0]]
    /\ UNCHANGED <<fixed, match, state, paused, ledger, cache, players, emitted,
                   clock, tmp, log>>

\* The setTimeout callback: its two assignments to this.state are overwritten
\* by the loadState of nextQuestion, which is the first await it reaches.  A
\* callback is not an inbound command: it runs whenever its timer is due.
TimerFire(h) ==
    /\ pc[h] = "idle"
    /\ \E t \in timers :
          /\ now >= t.fireAt
          /\ timers' = timers \ {t}
    /\ Begin(h, [op |-> "timer", cmd |-> NextCmd], "nq_load")
    /\ UNCHANGED <<fixed, match, state, paused, ledger, cache, players, emitted,
                   clock, mem, tmp, log>>

\* ----------------------------------------------------------- revealAnswer
\* MatchAnswer rows of one question
AnswersOf(rows, inningIdx, questionIdx) ==
    {a \in rows : a.inningIdx = inningIdx /\ a.questionIdx = questionIdx}

RECURSIVE SetToSeq(_)
\* the rows of a findMany, in id order
SetToSeq(S) ==
    IF S = {} THEN <<>>
    ELSE LET a == CHOOSE x \in S : \A y \in S : x.id <= y.id
         IN  <<a>> \o SetToSeq(S \ {a})

Abs(n) == IF n < 0 THEN 0 - n ELSE n

RECURSIVE ClosestLoop(_, _, _, _, _)
\* the for loop of handleClosestQuestion; minDistance None is Infinity
ClosestLoop(answers, k, correctValue, minDistance, closestAnswerIds) ==
    IF k > Len(answers) THEN closestAnswerIds
    ELSE LET answer == answers[k]
             numericAnswer == ParseFloat(answer.choice)
             distance == Abs(correctValue - Get(numericAnswer))
         IN  IF ~IsSome(numericAnswer)
             THEN ClosestLoop(answers, k + 1, correctValue, minDistance, closestAnswerIds)
             ELSE IF ~IsSome(minDistance) \/ distance < Get(minDistance)
             THEN ClosestLoop(answers, k + 1, correctValue, Some(distance), {answer.id})
             ELSE IF distance = Get(minDistance)
             THEN ClosestLoop(answers, k + 1, correctValue, minDistance,
                              closestAnswerIds \cup {answer.id})
             ELSE ClosestLoop(answers, k + 1, correctValue, minDistance, closestAnswerIds)

\* Number.prototype.toString over the values the packs hold
NumToString(n) == IF n = 54 THEN "54" ELSE "0"

getCorrectAnswer(q) ==
    CASE q.type \in {"mc", "media"} -> ChoiceAt(q)
      [] q.type = "tf" -> q.correctAnswer
      [] OTHER -> NumToString(q.correctValue)

\* revealAnswer without its phase check
RevealLoadAnyPhase(h) ==
    /\ CanIssue(h)
    /\ LET r == [op |-> "reveal", cmd |-> NextCmd]
           question == pack[state.inning + 1][state.questionIdx + 1]
           questionId == Get(state.question).id
       IN  IF ~IsSome(state.question)
           THEN Reject(h, r, "No current question to reveal")
           ELSE /\ Begin(h, r, IF question.type = "closest"
                               THEN "rv_closest_read" ELSE "rv_answers")
                /\ mem' = [mem EXCEPT ![h] = state]
                /\ tmp' = [tmp EXCEPT ![h] =
                      [inningIdx |-> ParseInning(questionId),
                       questionIdx |-> ParseQuestionIdx(questionId),
                       question |-> question, questionId |-> questionId,
                       closestAnswerIds |-> {}, results |-> {}]]
                /\ UNCHANGED log
    /\ UNCHANGED <<fixed, store, emitted, clock>>

\* loadState, the two checks, and generateRevealPayload up to its first await
RevealLoad(h) ==
    /\ CanIssue(h)
    /\ LET r == [op |-> "reveal", cmd |-> NextCmd]
           question == pack[state.inning + 1][state.questionIdx + 1]
           questionId == Get(state.question).id
       IN  IF state.phase # "question"
           THEN Reject(h, r, "Can only reveal answer during question phase")
           ELSE IF ~IsSome(state.question)
           THEN Reject(h, r, "No current question to reveal")
           ELSE /\ Begin(h, r, IF question.type = "closest"
                               THEN "rv_closest_read" ELSE "rv_answers")
                /\ mem' = [mem EXCEPT ![h] = state]
                /\ tmp' = [tmp EXCEPT ![h] =
                      [inningIdx |-> ParseInning(questionId),
                       questionIdx |-> ParseQuestionIdx(questionId),
                       question |-> question, questionId |-> questionId,
                       closestAnswerIds |-> {}, results |-> {}]]
                /\ UNCHANGED log
    /\ UNCHANGED <<fixed, store, emitted, clock>>

\* handleClosestQuestion: matchAnswer.findMany and the loop over its rows
RvClosestRead(h) ==
    /\ pc[h] = "rv_closest_read"
    /\ LET answers == AnswersOf(ledger, tmp[h].inningIdx, tmp[h].questionIdx)
           ids == ClosestLoop(SetToSeq(answers), 1, tmp[h].question.correctValue,
                              None, {})
       IN  /\ tmp' = [tmp EXCEPT ![h].closestAnswerIds = ids]
           /\ Goto(h, IF ids = {} THEN "rv_answers" ELSE "rv_closest_write")
    /\ UNCHANGED <<fixed, store, emitted, clock, issued, req, mem, log>>

\* the updateMany setting the bonus flag and leaving isCorrect as it is
RvClosestWriteBonusOnly(h) ==
    /\ pc[h] = "rv_closest_write"
    /\ ledger' = {IF a.id \in tmp[h].closestAnswerIds
                  THEN [a EXCEPT !.bonusAwarded = TRUE]
                  ELSE a : a \in ledger}
    /\ Goto(h, "rv_answers")
    /\ UNCHANGED <<fixed, match, state, paused, cache, players, timers, emitted,
                   clock, issued, req, mem, tmp, log>>

\* handleClosestQuestion: matchAnswer.updateMany
RvClosestWrite(h) ==
    /\ pc[h] = "rv_closest_write"
    /\ ledger' = {IF a.id \in tmp[h].closestAnswerIds
                  THEN [a EXCEPT !.isCorrect = TRUE, !.bonusAwarded = FALSE]
                  ELSE a : a \in ledger}
    /\ Goto(h, "rv_answers")
    /\ UNCHANGED <<fixed, match, state, paused, cache, players, timers, emitted,
                   clock, issued, req, mem, tmp, log>>

NicknameOf(playerId) ==
    LET rows == {p \in players : p.id = playerId}
    IN  IF rows = {} THEN "Unknown" ELSE (CHOOSE p \in rows : TRUE).nickname

\* getQuestionAnswers reporting one run for every correct Answer
getQuestionAnswersOneRun(inningIdx, questionIdx) ==
    LET cached == {c \in cache : c.key = <<inningIdx, questionIdx>>}
    IN  IF cached # {}
        THEN {[playerId |-> c.playerId, nickname |-> NicknameOf(c.playerId),
               isCorrect |-> c.isCorrect,
               runsAwarded |-> IF c.isCorrect THEN 1 ELSE 0] : c \in cached}
        ELSE {[playerId |-> a.playerId, nickname |-> NicknameOf(a.playerId),
               isCorrect |-> a.isCorrect,
               runsAwarded |-> IF a.isCorrect THEN 1 ELSE 0]
              : a \in AnswersOf(ledger, inningIdx, questionIdx)}

\* getQuestionAnswers: the Redis set when it has members, else the table
getQuestionAnswers(inningIdx, questionIdx) ==
    LET cached == {c \in cache : c.key = <<inningIdx, questionIdx>>}
    IN  IF cached # {}
        THEN {[playerId |-> c.playerId, nickname |-> NicknameOf(c.playerId),
               isCorrect |-> c.isCorrect, runsAwarded |-> c.runsAwarded] : c \in cached}
        ELSE {[playerId |-> a.playerId, nickname |-> NicknameOf(a.playerId),
               isCorrect |-> a.isCorrect,
               runsAwarded |-> IF a.bonusAwarded THEN 4 ELSE IF a.isCorrect THEN 1 ELSE 0]
              : a \in AnswersOf(ledger, inningIdx, questionIdx)}

RvAnswers(h) ==
    /\ pc[h] = "rv_answers"
    /\ tmp' = [tmp EXCEPT ![h].results =
                  getQuestionAnswers(tmp[h].inningIdx, tmp[h].questionIdx)]
    /\ Goto(h, "rv_line")
    /\ UNCHANGED <<fixed, store, emitted, clock, issued, req, mem, log>>

RECURSIVE SumRuns(_)
\* answers.reduce((total, answer) => total + (answer.bonusAwarded ? 4 : 1), 0)
SumRuns(rows) ==
    IF rows = {} THEN 0
    ELSE LET a == CHOOSE x \in rows : TRUE
         IN  (IF a.bonusAwarded THEN 4 ELSE 1) + SumRuns(rows \ {a})

calculateInningRuns(inningIdx) ==
    SumRuns({a \in ledger : a.inningIdx = inningIdx /\ a.isCorrect})

\* revealAnswer clearing the deadline without leaving the question phase
RvLineKeepsPhase(h) ==
    /\ pc[h] = "rv_line"
    /\ mem' = [mem EXCEPT ![h] =
          [@ EXCEPT !.lineScore[mem[h].inning + 1] =
                        Some(calculateInningRuns(mem[h].inning)),
                    !.endsAt = None]]
    /\ Goto(h, "rv_save")
    /\ UNCHANGED <<fixed, store, emitted, clock, issued, req, tmp, log>>

\* updateLineScore, then the move to reveal up to the await of saveState
RvLine(h) ==
    /\ pc[h] = "rv_line"
    /\ mem' = [mem EXCEPT ![h] =
          [@ EXCEPT !.lineScore[mem[h].inning + 1] =
                        Some(calculateInningRuns(mem[h].inning)),
                    !.phase = "reveal", !.endsAt = None]]
    /\ Goto(h, "rv_save")
    /\ UNCHANGED <<fixed, store, emitted, clock, issued, req, tmp, log>>

\* io.to(matchId).emit('question:reveal', revealPayload)
QuestionReveal(cmd, t) ==
    [type |-> "question:reveal", cmd |-> cmd, questionId |-> t.questionId,
     correctAnswer |-> getCorrectAnswer(t.question), playerResults |-> t.results]

RvSave(h) ==
    /\ pc[h] = "rv_save"
    /\ state' = mem[h]
    /\ Emit({StateUpdate(req[h].cmd, mem[h]), QuestionReveal(req[h].cmd, tmp[h])})
    /\ Finish(h, "ok")
    /\ UNCHANGED <<fixed, match, paused, ledger, cache, players, timers, clock, issued>>

\* --------------------------------------------------- pauseMatch, resumeMatch
PauseLoad(h) ==
    /\ CanIssue(h)
    /\ Begin(h, [op |-> "pause", cmd |-> NextCmd], "pause_set")
    /\ mem' = [mem EXCEPT ![h] = state]
    /\ UNCHANGED <<fixed, store, emitted, clock, tmp, log>>

PauseSet(h) ==
    /\ pc[h] = "pause_set"
    /\ paused' = TRUE
    /\ Emit({[type |-> "match:paused", cmd |-> req[h].cmd]})
    /\ Finish(h, "ok")
    /\ UNCHANGED <<fixed, match, state, ledger, cache, players, timers, clock, issued>>

ResumeLoad(h) ==
    /\ CanIssue(h)
    /\ Begin(h, [op |-> "resume", cmd |-> NextCmd], "resume_del")
    /\ mem' = [mem EXCEPT ![h] = state]
    /\ UNCHANGED <<fixed, store, emitted, clock, tmp, log>>

MatchResumed(cmd, st) == [type |-> "match:resumed", cmd |-> cmd, endsAt |-> st.endsAt]

\* redisClient.del of the pause key; in the question phase the new deadline,
\* up to the await of saveState
ResumeDel(h) ==
    /\ pc[h] = "resume_del"
    /\ paused' = FALSE
    /\ IF mem[h].phase = "question" /\ IsSome(mem[h].endsAt)
       THEN /\ mem' = [mem EXCEPT ![h].endsAt = Some(now + settings.timerSec * 1000)]
            /\ Goto(h, "resume_save")
            /\ UNCHANGED <<emitted, req, tmp, log>>
       ELSE /\ Emit({MatchResumed(req[h].cmd, mem[h])})
            /\ Finish(h, "ok")
    /\ UNCHANGED <<fixed, match, state, ledger, cache, players, timers, clock, issued>>

ResumeSave(h) ==
    /\ pc[h] = "resume_save"
    /\ state' = mem[h]
    /\ Emit({MatchResumed(req[h].cmd, mem[h])})
    /\ Finish(h, "ok")
    /\ UNCHANGED <<fixed, match, paused, ledger, cache, players, timers, clock, issued>>

\* ----------------------------------------------------------- submitAnswer
\* calculateRuns with a strict speed threshold
calculateRunsStrict(isCorrect, answerMs, st, isGrandSlam) ==
    IF ~isCorrect THEN [runs |-> 0, bonusAwarded |-> FALSE]
    ELSE IF st.grandSlam /\ isGrandSlam THEN [runs |-> 4, bonusAwarded |-> TRUE]
    ELSE IF st.speedBonus /\ answerMs < (st.timerSec * 1000) \div 4
    THEN [runs |-> 4, bonusAwarded |-> TRUE]
    ELSE [runs |-> 1, bonusAwarded |-> FALSE]

calculateRuns(isCorrect, answerMs, st, isGrandSlam) ==
    IF ~isCorrect THEN [runs |-> 0, bonusAwarded |-> FALSE]
    ELSE IF st.grandSlam /\ isGrandSlam THEN [runs |-> 4, bonusAwarded |-> TRUE]
    ELSE IF st.speedBonus /\ answerMs <= (st.timerSec * 1000) \div 4
    THEN [runs |-> 4, bonusAwarded |-> TRUE]
    ELSE [runs |-> 1, bonusAwarded |-> FALSE]

\* no correct MatchAnswer row of the question yet
isGrandSlam(rows, inningIdx, questionIdx) ==
    {a \in AnswersOf(rows, inningIdx, questionIdx) : a.isCorrect} = {}

\* the table without its unique index
UniqueIndexDropped(rows, row) == TRUE

\* MatchAnswer_matchId_playerId_inningIdx_questionIdx_key
UniqueIndexAllows(rows, row) ==
    ~\E a \in rows : /\ a.playerId = row.playerId
                      /\ a.inningIdx = row.inningIdx
                      /\ a.questionIdx = row.questionIdx

\* the question ids a client may send: the first two positions of every
\* inning, whether the pack has a question there or not
SubmitIds == {QuestionId(MatchId, i, j) : i \in 0..(Len(pack) - 1), j \in 0..1}

\* the choices a client may send for a question
ChoicesFor(questionId) ==
    LET q == QuestionAt(pack, ParseInning(questionId), ParseQuestionIdx(questionId))
    IN  IF ~IsSome(q) THEN {"A"}
        ELSE CASE Get(q).type \in {"mc", "media"} -> {"A", "B"}
               [] Get(q).type = "tf" -> {"True", "false"}
               [] OTHER -> {"54", "50", "58", "many"}

\* answer:submit commands received so far
Submits ==
    Cardinality({l \in log : l.op = "submit"}) +
    Cardinality({h \in Handlers : req[h].op = "submit"})

\* the answer:submit handler up to the await of isGrandSlam: getPlayerById,
\* match.findUnique and the lookup of the question in the pack
SubmitBegin(h) ==
    /\ CanIssue(h)
    /\ Submits < MaxSubmits
    /\ \E playerId \in Players, questionId \in SubmitIds, clientLatencyMs \in Latencies :
       \E choice \in ChoicesFor(questionId) :
          LET r == [op |-> "submit", cmd |-> NextCmd, playerId |-> playerId,
                    questionId |-> questionId, choice |-> choice,
                    clientLatencyMs |-> clientLatencyMs]
              inningIdx == ParseInning(questionId)
              questionIdx == ParseQuestionIdx(questionId)
              question == QuestionAt(pack, inningIdx, questionIdx)
          IN  IF ~\E p \in players : p.id = playerId
              THEN Reject(h, r, "Player not found in match")
              ELSE IF ~IsSome(question)
              THEN Reject(h, r, "Question not found")
              ELSE /\ Begin(h, r, "sub_gs")
                   /\ tmp' = [tmp EXCEPT ![h] =
                         [inningIdx |-> inningIdx, questionIdx |-> questionIdx,
                          correct |-> isAnswerCorrect(Get(question), choice),
                          grandSlam |-> FALSE, runsAwarded |-> 0,
                          bonusAwarded |-> FALSE, pending |-> {}, order |-> <<>>,
                          scores |-> <<>>]]
                   /\ UNCHANGED <<mem, log>>
    /\ UNCHANGED <<fixed, store, emitted, clock>>

\* isGrandSlam's findMany, then calculateRuns
SubGrandSlam(h) ==
    /\ pc[h] = "sub_gs"
    /\ LET grandSlam == isGrandSlam(ledger, tmp[h].inningIdx, tmp[h].questionIdx)
           res == calculateRuns(tmp[h].correct, req[h].clientLatencyMs, settings,
                                grandSlam)
       IN  tmp' = [tmp EXCEPT ![h].grandSlam = grandSlam,
                              ![h].runsAwarded = res.runs,
                              ![h].bonusAwarded = res.bonusAwarded]
    /\ Goto(h, "sub_create")
    /\ UNCHANGED <<fixed, store, emitted, clock, issued, req, mem, log>>

\* the row matchAnswer.create inserts
AnswerRow(h) ==
    [id |-> req[h].cmd, playerId |-> req[h].playerId,
     inningIdx |-> tmp[h].inningIdx, questionIdx |-> tmp[h].questionIdx,
     choice |-> req[h].choice, isCorrect |-> tmp[h].correct,
     answerMs |-> req[h].clientLatencyMs, bonusAwarded |-> tmp[h].bonusAwarded,
     createdAt |-> now]

\* matchAnswer.create: the unique index rejects a second row of the tuple
SubCreate(h) ==
    /\ pc[h] = "sub_create"
    /\ IF UniqueIndexAllows(ledger, AnswerRow(h))
       THEN /\ ledger' = ledger \cup {AnswerRow(h)}
            /\ Goto(h, "sub_cache")
            /\ UNCHANGED <<req, mem, tmp, log>>
       ELSE /\ Finish(h, "Unique constraint failed")
            /\ UNCHANGED ledger
    /\ UNCHANGED <<fixed, match, state, paused, cache, players, timers, emitted,
                   clock, issued>>

\* the member redisClient.sadd adds
CacheEntry(h) ==
    [key |-> <<tmp[h].inningIdx, tmp[h].questionIdx>>, playerId |-> req[h].playerId,
     choice |-> req[h].choice, isCorrect |-> tmp[h].correct,
     runsAwarded |-> tmp[h].runsAwarded, bonusAwarded |-> tmp[h].bonusAwarded,
     answerMs |-> req[h].clientLatencyMs]

\* socket.emit('answer:submit:success', {questionId, submitted: true})
SubmitAck(cmd, questionId) ==
    [type |-> "answer:submit:success", cmd |-> cmd, questionId |-> questionId,
     submitted |-> TRUE]

\* redisClient.sadd and expire, then the acknowledgement to the player
SubCache(h) ==
    /\ pc[h] = "sub_cache"
    /\ cache' = cache \cup {CacheEntry(h)}
    /\ Emit({SubmitAck(req[h].cmd, req[h].questionId)})
    /\ Goto(h, "sub_players")
    /\ UNCHANGED <<fixed, match, state, paused, ledger, players, timers, clock,
                   issued, req, mem, tmp, log>>

RECURSIVE Perms(_)
\* the orders a findMany without orderBy may return rows in
Perms(S) ==
    IF S = {} THEN {<<>>}
    ELSE UNION {{<<x>> \o t : t \in Perms(S \ {x})} : x \in S}

\* The handler's own stateMachine.loadState(), whose result updateLeaderboard
\* reads again before any use, and matchPlayer.findMany({matchId, leftAt: null})
SubPlayers(h) ==
    /\ pc[h] = "sub_players"
    /\ LET active == {p.id : p \in {x \in players : ~x.left}} IN
       \E order \in Perms(active) :
          /\ tmp' = [tmp EXCEPT ![h].order = order, ![h].pending = active,
                                ![h].scores = [i \in 1..Len(order) |-> None]]
          /\ Goto(h, IF active = {} THEN "sub_lb_load" ELSE "sub_scores")
    /\ UNCHANGED <<fixed, store, emitted, clock, issued, req, mem, log>>

\* what one row is worth: 4 with the bonus, 1 when correct, else 0
RunsOf(a) == IF ~a.isCorrect THEN 0 ELSE IF a.bonusAwarded THEN 4 ELSE 1

RECURSIVE SumRunsOf(_)
SumRunsOf(rows) ==
    IF rows = {} THEN 0
    ELSE LET a == CHOOSE x \in rows : TRUE
         IN  RunsOf(a) + SumRunsOf(rows \ {a})

RECURSIVE SumMs(_)
SumMs(rows) ==
    IF rows = {} THEN 0
    ELSE LET a == CHOOSE x \in rows : TRUE
         IN  a.answerMs + SumMs(rows \ {a})

\* the PlayerScore the handler computes from one player's rows
PlayerScoreOf(playerId, rows) ==
    LET answers == {a \in rows : a.playerId = playerId}
    IN  [playerId |-> playerId, nickname |-> NicknameOf(playerId),
         runs |-> SumRunsOf(answers),
         correct |-> Cardinality({a \in answers : a.isCorrect}),
         total |-> Cardinality(answers),
         totalTimeMs |-> SumMs(answers)]

\* one matchAnswer.findMany of the Promise.all
SubScoreRead(h) ==
    /\ pc[h] = "sub_scores"
    /\ \E k \in 1..Len(tmp[h].order) :
          /\ tmp[h].order[k] \in tmp[h].pending
          /\ tmp' = [tmp EXCEPT
                ![h].pending = @ \ {tmp[h].order[k]},
                ![h].scores[k] = Some(PlayerScoreOf(tmp[h].order[k], ledger))]
          /\ Goto(h, IF tmp[h].pending = {tmp[h].order[k]}
                     THEN "sub_lb_load" ELSE "sub_scores")
    /\ UNCHANGED <<fixed, store, emitted, clock, issued, req, mem, log>>

\* the comparator without its tie-break on totalTimeMs
CompareRunsOnly(a, b) == b.runs - a.runs

\* the comparator of updateLeaderboard: negative when a sorts before b
Compare(a, b) ==
    IF b.runs # a.runs THEN b.runs - a.runs ELSE a.totalTimeMs - b.totalTimeMs

RECURSIVE InsertSorted(_, _)
InsertSorted(sorted, x) ==
    IF sorted = <<>> THEN <<x>>
    ELSE IF Compare(x, sorted[Len(sorted)]) < 0
    THEN InsertSorted(SubSeq(sorted, 1, Len(sorted) - 1), x) \o <<sorted[Len(sorted)]>>
    ELSE sorted \o <<x>>

RECURSIVE SortScores(_)
\* Array.prototype.sort with Compare: a stable sort
SortScores(scores) ==
    IF scores = <<>> THEN <<>>
    ELSE InsertSorted(SortScores(SubSeq(scores, 1, Len(scores) - 1)),
                      scores[Len(scores)])

\* updateLeaderboard: loadState and the sort, up to the await of saveState
SubLbLoad(h) ==
    /\ pc[h] = "sub_lb_load"
    /\ mem' = [mem EXCEPT ![h] =
          [state EXCEPT !.leaderboard =
              SortScores([i \in 1..Len(tmp[h].scores) |-> Get(tmp[h].scores[i])])]]
    /\ Goto(h, "sub_lb_save")
    /\ UNCHANGED <<fixed, store, emitted, clock, issued, req, tmp, log>>

\* io.to(matchId).emit('score:update', {leaderboard, lineScore})
ScoreUpdate(cmd, st) ==
    [type |-> "score:update", cmd |-> cmd, leaderboard |-> st.leaderboard,
     lineScore |-> st.lineScore]

SubLbSave(h) ==
    /\ pc[h] = "sub_lb_save"
    /\ state' = mem[h]
    /\ Emit({ScoreUpdate(req[h].cmd, mem[h])})
    /\ Finish(h, "ok")
    /\ UNCHANGED <<fixed, match, paused, ledger, cache, players, timers, clock, issued>>

\* ---------------------------------------------------- joinMatch, leaveMatch
\* the nicknames a client may send: one an active player holds, one nobody holds
NewNickname == NumPlayers + 1
JoinNicknames == {1, NewNickname}

\* the id matchPlayer.create gives the row of command cmd
NewPlayerId(cmd) == NumPlayers + cmd

\* roomManager.broadcastToMatch(matchId, 'player:joined', {player})
PlayerJoined(cmd, player) == [type |-> "player:joined", cmd |-> cmd, player |-> player]

\* player:join: match.findUnique and the status check
JoinBegin(h) ==
    /\ CanIssue(h)
    /\ \E nickname \in JoinNicknames :
          LET r == [op |-> "join", cmd |-> NextCmd, nickname |-> nickname] IN
          IF match.status \in {"COMPLETED", "ABANDONED"}
          THEN Reject(h, r, "Match has ended. Cannot join.")
          ELSE /\ Begin(h, r, "join_find")
               /\ tmp' = [tmp EXCEPT ![h] = [playerId |-> 0]]
               /\ UNCHANGED <<mem, log>>
    /\ UNCHANGED <<fixed, store, emitted, clock>>

\* matchPlayer.findFirst({matchId, nickname, leftAt: null})
JoinFind(h) ==
    /\ pc[h] = "join_find"
    /\ LET existing == {p \in players : p.nickname = req[h].nickname /\ ~p.left} IN
       IF existing # {}
       THEN \E p \in existing :
               /\ tmp' = [tmp EXCEPT ![h].playerId = p.id]
               /\ Goto(h, "rc_update")
       ELSE /\ Goto(h, "join_create")
            /\ UNCHANGED tmp
    /\ UNCHANGED <<fixed, store, emitted, clock, issued, req, mem, log>>

\* matchPlayer.create
JoinCreate(h) ==
    /\ pc[h] = "join_create"
    /\ players' = players \cup {[id |-> NewPlayerId(req[h].cmd),
                                  nickname |-> req[h].nickname,
                                  socketId |-> SocketOf(req[h].cmd), left |-> FALSE]}
    /\ tmp' = [tmp EXCEPT ![h].playerId = NewPlayerId(req[h].cmd)]
    /\ Goto(h, "join_load")
    /\ UNCHANGED <<fixed, match, state, paused, ledger, cache, timers, emitted,
                   clock, issued, req, mem, log>>

\* reconnectPlayer: matchPlayer.update({socketId, leftAt: null})
RcUpdate(h) ==
    /\ pc[h] = "rc_update"
    /\ players' = {IF p.id = tmp[h].playerId
                    THEN [p EXCEPT !.socketId = SocketOf(req[h].cmd), !.left = FALSE]
                    ELSE p : p \in players}
    /\ Goto(h, "join_load")
    /\ UNCHANGED <<fixed, match, state, paused, ledger, cache, timers, emitted,
                   clock, issued, req, mem, tmp, log>>

\* redisClient.get of the blob; the player is pushed unless reconnectPlayer
\* finds it in state.players
JoinLoad(h) ==
    /\ pc[h] = "join_load"
    /\ LET entry == [id |-> tmp[h].playerId, nickname |-> req[h].nickname,
                     socketId |-> SocketOf(req[h].cmd)]
           listed == \E i \in 1..Len(state.players) :
                         state.players[i].id = tmp[h].playerId
       IN  IF expired
           THEN Finish(h, "Match state not found")
           ELSE /\ mem' = [mem EXCEPT ![h] =
                      IF listed
                      THEN [state EXCEPT !.players =
                              [i \in 1..Len(@) |->
                                  IF @[i].id = tmp[h].playerId
                                  THEN [@[i] EXCEPT !.socketId = SocketOf(req[h].cmd)]
                                  ELSE @[i]]]
                      ELSE [state EXCEPT !.players = Append(@, entry)]]
                /\ Goto(h, "join_save")
                /\ UNCHANGED <<req, tmp, log>>
    /\ UNCHANGED <<fixed, store, emitted, clock, issued>>

\* redisClient.setex of the blob, then the handler's broadcasts
JoinSave(h) ==
    /\ pc[h] = "join_save"
    /\ state' = mem[h]
    /\ Emit({PlayerJoined(req[h].cmd, tmp[h].playerId),
             StateUpdate(req[h].cmd, mem[h])})
    /\ Finish(h, "ok")
    /\ UNCHANGED <<fixed, match, paused, ledger, cache, players, timers, clock, issued>>

RECURSIVE Without(_, _)
\* state.players.filter((p) => p.id !== playerId)
Without(list, playerId) ==
    IF list = <<>> THEN <<>>
    ELSE (IF list[1].id = playerId THEN <<>> ELSE <<list[1]>>)
             \o Without(Tail(list), playerId)

\* player:leave: matchPlayer.update({leftAt: new Date(), socketId: null})
LeaveUpdate(h) ==
    /\ CanIssue(h)
    /\ \E playerId \in Players :
          /\ Begin(h, [op |-> "leave", cmd |-> NextCmd, playerId |-> playerId],
                   "leave_load")
          /\ players' = {IF p.id = playerId
                          THEN [p EXCEPT !.socketId = NoSocket, !.left = TRUE]
                          ELSE p : p \in players}
    /\ UNCHANGED <<fixed, match, state, paused, ledger, cache, timers, emitted,
                   clock, mem, tmp, log>>

\* roomManager.broadcastToMatch(matchId, 'player:left', {playerId})
PlayerLeft(cmd, playerId) == [type |-> "player:left", cmd |-> cmd, playerId |-> playerId]

\* redisClient.get of the blob and the filter; without a blob leaveMatch
\* returns and the handler broadcasts
LeaveLoad(h) ==
    /\ pc[h] = "leave_load"
    /\ IF expired
       THEN /\ Emit({PlayerLeft(req[h].cmd, req[h].playerId)})
            /\ Finish(h, "ok")
       ELSE /\ mem' = [mem EXCEPT ![h] =
                         [state EXCEPT !.players = Without(@, req[h].playerId)]]
            /\ Goto(h, "leave_save")
            /\ UNCHANGED <<emitted, req, tmp, log>>
    /\ UNCHANGED <<fixed, store, clock, issued>>

\* redisClient.setex of the blob, then the handler's broadcast
LeaveSave(h) ==
    /\ pc[h] = "leave_save"
    /\ state' = mem[h]
    /\ Emit({PlayerLeft(req[h].cmd, req[h].playerId)})
    /\ Finish(h, "ok")
    /\ UNCHANGED <<fixed, match, paused, ledger, cache, players, timers, clock, issued>>

\* ------------------------------------------------------------------ clock
Tick ==
    /\ ticks < MaxTicks
    /\ \E d \in TickSteps : now' = now + d
    /\ ticks' = ticks + 1
    /\ UNCHANGED <<fixed, store, emitted, issued, pc, req, mem, tmp, log>>


\* ------------------------------------------------------------------ claims
Keys == {<<a.playerId, a.inningIdx, a.questionIdx>> : a \in ledger}
RowsOf(k) ==
    {a \in ledger : a.playerId = k[1] /\ a.inningIdx = k[2] /\ a.questionIdx = k[3]}

\* the submissions of key k that have been through matchAnswer.create
AfterCreate == {"sub_cache", "sub_players", "sub_scores", "sub_lb_load", "sub_lb_save"}
Persisted(k) ==
    {l.cmd : l \in {x \in log : x.op = "submit" /\ x.key = k /\ x.outcome = "ok"}}
    \cup {req[h].cmd : h \in {x \in Handlers : /\ req[x].op = "submit"
                                               /\ ReqKey(req[x]) = k
                                               /\ pc[x] \in AfterCreate}}
Refused(k) ==
    {l.cmd : l \in {x \in log : /\ x.op = "submit" /\ x.key = k
                                /\ x.outcome = "Unique constraint failed"}}
SubmitKeys ==
    {l.key : l \in {x \in log : x.op = "submit" /\ x.outcome # "Question not found"}}
    \cup {ReqKey(req[h]) : h \in {x \in Handlers : req[x].op = "submit"}}

\* C1: the ledger never holds two Answers of one (player, inning, question);
\* of the submissions of one tuple that have been through the ledger write,
\* exactly one is persisted, it is the row the ledger holds, and every other
\* one failed on the unique index.
C1_ExactlyOnce ==
    /\ \A a, b \in ledger :
          (a.playerId = b.playerId /\ a.inningIdx = b.inningIdx
             /\ a.questionIdx = b.questionIdx) => a = b
    /\ \A k \in SubmitKeys :
          /\ Cardinality(Persisted(k)) <= 1
          /\ {a.id : a \in RowsOf(k)} = Persisted(k)
          /\ Refused(k) # {} => Cardinality(Persisted(k)) = 1

\* Two submissions of one tuple raced: the one received first was refused and
\* the one received second holds the row.
C1_Witness ==
    \E k \in SubmitKeys : \E a \in RowsOf(k) : \E c \in Refused(k) : c < a.id

\* C2: an Answer is persisted only while the match is showing its question.
C2_OnlyShownQuestion ==
    [][\A a \in ledger' \ ledger :
          /\ state.phase = "question"
          /\ state.inning = a.inningIdx
          /\ state.questionIdx = a.questionIdx]_vars

\* C3: with grand slam on and speed bonus off, at most one Answer of a
\* question carries the bonus.
C3_OneGrandSlam ==
    (settings.grandSlam /\ ~settings.speedBonus) =>
        \A a, b \in ledger :
            (a.inningIdx = b.inningIdx /\ a.questionIdx = b.questionIdx
               /\ a.bonusAwarded /\ b.bonusAwarded) => a = b

\* the scoring rule table of C4
RuleTable(correct, answerMs, st, firstCorrect) ==
    CASE ~correct -> <<0, FALSE>>
      [] correct /\ st.grandSlam /\ firstCorrect -> <<4, TRUE>>
      [] correct /\ ~(st.grandSlam /\ firstCorrect) /\ st.speedBonus
           /\ answerMs <= 250 * st.timerSec -> <<4, TRUE>>
      [] OTHER -> <<1, FALSE>>

C5_LatencyFair ==
    \A a, b \in ledger :
        (a.inningIdx = b.inningIdx /\ a.questionIdx = b.questionIdx
           /\ a.choice = b.choice /\ a.createdAt = b.createdAt) =>
            (a.bonusAwarded = b.bonusAwarded /\ a.answerMs = b.answerMs)

\* VALID_TRANSITIONS
ValidTransitions ==
    {<<"lobby", "question">>, <<"question", "reveal">>, <<"reveal", "question">>,
     <<"reveal", "stretch">>, <<"reveal", "postgame">>, <<"stretch", "question">>}

\* C6: every change of the persisted phase is a pair of the adjacency table.
C6_PhaseAdjacency ==
    [][state'.phase # state.phase =>
          <<state.phase, state'.phase>> \in ValidTransitions]_vars

\* the step takes a command `op`: it is the command numbered issued + 1
Takes(op) ==
    /\ issued' = issued + 1
    /\ \/ \E h \in Handlers : req'[h].cmd = issued + 1 /\ req'[h].op = op
       \/ \E l \in log' \ log : l.cmd = issued + 1 /\ l.op = op

\* the step reports the failure of the command numbered issued + 1
Refuses(op) ==
    \E l \in log' \ log : l.cmd = issued + 1 /\ l.op = op /\ l.outcome # "ok"

\* C7: a start taken while the phase is not lobby fails in that step, which
\* changes neither the MatchState blob nor the Match row and leaves no
\* handler running for it.
C7_StartOnlyFromLobby ==
    [][(Takes("start") /\ state.phase # "lobby") =>
          (Refuses("start") /\ UNCHANGED <<state, match, pc, req, mem, tmp>>)]_vars

\* start was issued twice in sequence: the first succeeded, the second failed.
C7_Witness ==
    \E l1, l2 \in log :
        /\ l1.op = "start" /\ l1.outcome = "ok"
        /\ l2.op = "start" /\ l2.cmd > l1.cmd
        /\ l2.outcome = "Match can only be started from lobby phase"
        /\ state.phase = "question" /\ match.status = "IN_PROGRESS"

\* C8: a reveal taken while the phase is not question fails in that step,
\* which amends no Answer, emits nothing, changes no MatchState and leaves no
\* handler running for it.
C8_RevealOnlyFromQuestion ==
    [][(Takes("reveal") /\ state.phase # "question") =>
          (Refuses("reveal")
             /\ UNCHANGED <<state, ledger, emitted, match, pc, req, mem, tmp>>)]_vars

\* reveal was refused after the question had already been revealed
C8_Witness ==
    \E l1, l2 \in log :
        /\ l1.op = "reveal" /\ l1.outcome = "ok"
        /\ l2.op = "reveal" /\ l2.cmd > l1.cmd
        /\ l2.outcome = "Can only reveal answer during question phase"
        /\ state.phase = "reveal"

\* C9: at most one start command commits lobby -> question and broadcasts
\* question:show.
C9_OneStartCommits ==
    Cardinality({e \in emitted :
                    /\ e.type = "question:show"
                    /\ \E l \in log : l.cmd = e.cmd /\ l.op = "start"}) <= 1

\* C10: a start that fails on the validation of the first question leaves the
\* blob in lobby without question or deadline and the Match row in LOBBY with
\* startedAt unset.
C10_InvalidStartChangesNothing ==
    [][(\E l \in log' \ log : l.op = "start" /\ l.outcome = "Invalid question") =>
          /\ state'.phase = "lobby"
          /\ state'.question = None /\ state'.endsAt = None
          /\ match'.status = "LOBBY" /\ match'.startedAt = None]_vars

\* the Answers with a numeric choice at the least distance to correctValue
Minimisers(rows, correctValue) ==
    LET numeric == {a \in rows : IsSome(ParseFloat(a.choice))}
    IN  {a \in numeric : \A b \in numeric :
            Abs(correctValue - Get(ParseFloat(a.choice))) <=
                Abs(correctValue - Get(ParseFloat(b.choice)))}

\* the step in which handler h completes the reveal of a closest question
ClosestRevealDone(h) ==
    /\ pc[h] = "rv_save" /\ pc'[h] = "idle"
    /\ tmp[h].question.type = "closest"

\* C11: when the reveal of a closest question completes, the Answers of the
\* question flagged correct in the ledger are exactly the numeric Answers at
\* the least distance to correctValue, and none of them carries the bonus.
C11_ClosestWinners ==
    [][\A h \in Handlers : ClosestRevealDone(h) =>
          LET rows == AnswersOf(ledger', tmp[h].inningIdx, tmp[h].questionIdx)
          IN  /\ {a \in rows : a.isCorrect} =
                     Minimisers(rows, tmp[h].question.correctValue)
              /\ \A a \in rows : a.isCorrect => ~a.bonusAwarded]_vars

\* C12: every entry of the playerResults broadcast by the reveal of a closest
\* question reports the correctness and the runs the ledger holds for that
\* player's Answer once the reveal has amended it.
C12_RevealPayload ==
    [][\A h \in Handlers : ClosestRevealDone(h) =>
          \A r \in tmp[h].results :
              \E a \in AnswersOf(ledger, tmp[h].inningIdx, tmp[h].questionIdx) :
                  /\ a.playerId = r.playerId
                  /\ r.isCorrect = a.isCorrect
                  /\ r.runsAwarded = RunsOf(a)]_vars

\* the ledger had the Answer numbered `id` been an incorrect one
AsIncorrect(rows, id) ==
    {IF a.id = id THEN [a EXCEPT !.isCorrect = FALSE, !.bonusAwarded = FALSE] ELSE a
       : a \in rows}

\* what a leaderboard shows of one player: runs and number of correct answers
Standing(leaderboard, playerId) ==
    {<<leaderboard[i].runs, leaderboard[i].correct>> :
        i \in {j \in 1..Len(leaderboard) : leaderboard[j].playerId = playerId}}

\* C13: while the question is on show and not revealed, what a submission
\* makes the server emit does not depend on the correctness of the choice:
\* the acknowledgement carries only the question id, and the score:update
\* leaderboard shows the submitter as it would had the choice been wrong.
C13_NoCorrectnessLeak ==
    [][\A h \in Handlers :
          (req[h].op = "submit" /\ pc'[h] # pc[h] /\ state.phase = "question") =>
              \A e \in emitted' \ emitted :
                  /\ e.type = "answer:submit:success" =>
                        e = SubmitAck(req[h].cmd, req[h].questionId)
                  /\ e.type = "score:update" =>
                        Standing(e.leaderboard, req[h].playerId) =
                            LET s == PlayerScoreOf(req[h].playerId,
                                                   AsIncorrect(ledger, req[h].cmd))
                            IN  {<<s.runs, s.correct>>}]_vars

\* C14: over the whole match the stretch is started at most once: no second
\* stretch:start is ever emitted.
C14_StretchOnce ==
    Cardinality({e \in emitted : e.type = "stretch:start"}) <= 1

\* C15: a step of the stretch timer callback taken while the persisted phase
\* is not stretch, or while the Match row is completed or abandoned, writes
\* nothing to the MatchState blob and emits nothing.
C15_TimerGuarded ==
    [][\A h \in Handlers :
          (/\ req[h].op = "timer" /\ pc'[h] # pc[h]
           /\ \/ state.phase # "stretch"
              \/ match.status \in {"COMPLETED", "ABANDONED"}) =>
              (state' = state /\ emitted' = emitted)]_vars

\* a stretch timer callback has run to completion
TimerDone == \E l \in log : l.op = "timer" /\ l.outcome = "ok"

\* the first question of inning index 7 is on show
AtEighth ==
    /\ state.phase = "question" /\ state.inning = 7 /\ state.questionIdx = 0
    /\ state.question = Some(formatQuestion(MatchId, pack[8][1], 7, 0,
                                            settings.timerSec))

C17_QuestionHasDeadline ==
    state.phase = "question" => (IsSome(state.question) /\ IsSome(state.endsAt))

\* the second question is on show after the first one was revealed, which
\* had cleared the deadline
C17_Witness ==
    /\ state.phase = "question" /\ state.questionIdx = 1
    /\ \E l \in log : l.op = "reveal" /\ l.outcome = "ok"
    /\ \E l \in log : l.op = "skip" /\ l.outcome = "ok"

\* C18: the persisted inning is an index of the pack's innings and the
\* persisted questionIdx an index of that inning's questions.
C18_IndexValid ==
    /\ state.inning \in 0..(Len(pack) - 1)
    /\ state.questionIdx \in 0..(Len(pack[state.inning + 1]) - 1)

\* a stretch timer callback ran to completion in a two-inning pack and put
\* the next question on show
C18_Witness ==
    /\ \E l \in log : l.op = "timer" /\ l.outcome = "ok"
    /\ Len(pack) < 8
    /\ state.phase = "question" /\ state.questionIdx = 1

\* descending runs, ties by ascending totalTimeMs
Sorted(lb) ==
    \A i, j \in 1..Len(lb) :
        i < j => \/ lb[i].runs > lb[j].runs
                 \/ lb[i].runs = lb[j].runs /\ lb[i].totalTimeMs <= lb[j].totalTimeMs

\* the position of a player in a leaderboard
RankOf(lb, playerId) == CHOOSE k \in 1..Len(lb) : lb[k].playerId = playerId

\* C19: the stored leaderboard, and every leaderboard about to be stored or
\* broadcast, is sorted by descending runs then ascending totalTimeMs; and
\* had the scores been read in any other order, two players with distinct
\* (runs, totalTimeMs) would be ranked the same way.
C19_LeaderboardSorted ==
    /\ Sorted(state.leaderboard)
    /\ \A e \in emitted : e.type = "score:update" => Sorted(e.leaderboard)
    /\ \A h \in Handlers :
          pc[h] = "sub_lb_save" =>
              LET lb == mem[h].leaderboard
                  scores == [k \in 1..Len(tmp[h].scores) |-> Get(tmp[h].scores[k])]
              IN  /\ Sorted(lb)
                  /\ \A order \in Perms(1..Len(scores)) :
                        LET other == SortScores([k \in 1..Len(scores) |->
                                                    scores[order[k]]])
                        IN  \A i, j \in 1..Len(lb) :
                              (i < j /\ <<lb[i].runs, lb[i].totalTimeMs>> #
                                          <<lb[j].runs, lb[j].totalTimeMs>>) =>
                                  RankOf(other, lb[i].playerId) <
                                      RankOf(other, lb[j].playerId)

\* two players with the same runs: the one read second is stored first
\* because its total time is lower
C19_Witness ==
    /\ Len(state.leaderboard) = 2
    /\ state.leaderboard[1].runs = state.leaderboard[2].runs
    /\ state.leaderboard[1].runs > 0
    /\ state.leaderboard[1].totalTimeMs < state.leaderboard[2].totalTimeMs
    /\ state.leaderboard[1].playerId = 2

\* C20: no two MatchPlayer rows that are not marked left share a nickname.
C20_NicknameUnique ==
    \A p, q \in players :
        (~p.left /\ ~q.left /\ p.nickname = q.nickname) => p = q

\* C21: once the persisted phase is postgame it stays postgame.
C21_PostgameTerminal ==
    [][state.phase = "postgame" => state'.phase = "postgame"]_vars

\* C22: once the persisted phase has left lobby it is never lobby again.
C22_NoReturnToLobby ==
    [][state.phase # "lobby" => state'.phase # "lobby"]_vars

\* the commands of the host
HostOps == {"start", "pause", "resume", "skip", "reveal", "stretch"}

\* C23: a host command sent by a user who is not the host of the match fails
\* with Unauthorized in the step that takes it, and no step of it changes
\* the MatchState blob or the ledger.
C23_HostOnly ==
    [][sender # HostUser =>
          /\ \A op \in HostOps :
                Takes(op) => \E l \in log' \ log : /\ l.cmd = issued + 1
                                                  /\ l.outcome = "Unauthorized"
          /\ (\E h \in Handlers : req[h].op \in HostOps /\ pc'[h] # pc[h]) =>
                (state' = state /\ ledger' = ledger)]_vars

\* C24: an advance that fails on the validation of the next question leaves
\* the blob as it was and broadcasts nothing: the failing step changes
\* neither, and no event was ever emitted for that command.
C24_InvalidAdvanceChangesNothing ==
    [][\A l \in log' \ log :
          (l.op \in {"skip", "timer"} /\ l.outcome = "Invalid question") =>
              /\ state' = state /\ emitted' = emitted /\ match' = match
              /\ \A e \in emitted : e.cmd # l.cmd]_vars

\* a skip failed on the second question and the first is still on show
C24_Witness ==
    /\ \E l \in log : l.op = "skip" /\ l.outcome = "Invalid question"
    /\ pack = PackBad
    /\ state.phase = "question" /\ state.inning = 0 /\ state.questionIdx = 0

\* where an advance from question (i, q) goes: the next question of the
\* inning, else the first of the next inning, else postgame
AdvanceTarget(i, q) ==
    IF q + 1 < Len(pack[i + 1]) THEN <<"question", i, q + 1>>
    ELSE IF i + 1 < Len(pack) THEN <<"question", i + 1, 0>>
    ELSE <<"postgame", i, q>>

\* the inning boundaries around the stretch
StretchBoundary(i, q) == q + 1 >= Len(pack[i + 1]) /\ i \in {5, 6}

C26_StretchBeforeSeventh ==
    [][\A h \in Handlers :
          (/\ pc[h] = "nq_load" /\ pc'[h] # pc[h]
           /\ state.phase \in {"question", "reveal"}
           /\ state.questionIdx + 1 >= Len(pack[state.inning + 1])
           /\ state.inning + 1 < Len(pack)) =>
              IF state.inning + 1 = 6
              THEN pc'[h] = "ts_load"
              ELSE /\ pc'[h] = "nq_save"
                   /\ mem'[h].phase = "question"
                   /\ mem'[h].inning = state.inning + 1
                   /\ mem'[h].questionIdx = 0]_vars

\* C27: the persisted blob carries a question only in phase question or
\* reveal, and a deadline only in phase question.
C27_QuestionFieldsByPhase ==
    /\ state.question # None => state.phase \in {"question", "reveal"}
    /\ state.endsAt # None => state.phase = "question"

\* the runs of the Answers of one inning as the ledger rows stand
InningTotal(rows, inningIdx) ==
    SumRuns({a \in rows : a.inningIdx = inningIdx /\ a.isCorrect})

\* C28: when a reveal completes in inning i, the saved lineScore[i] is the
\* total of the runs of the ledger's Answers of inning i, closest amendments
\* included, and every other lineScore entry is as it was.
C28_LineScoreIsInningTotal ==
    [][\A h \in Handlers :
          (pc[h] = "rv_save" /\ pc'[h] = "idle") =>
              LET i == mem[h].inning IN
              /\ state'.lineScore[i + 1] = Some(InningTotal(ledger', i))
              /\ \A j \in 1..Len(pack) :
                    j # i + 1 => state'.lineScore[j] = state.lineScore[j]]_vars

\* the leaderboard entries the blob holds for one player
EntriesOf(st, playerId) ==
    {st.leaderboard[k] : k \in {n \in 1..Len(st.leaderboard) :
                                    st.leaderboard[n].playerId = playerId}}

\* C29: with no handler mid-way and a submission completed, the stored
\* leaderboard holds for every player who has not left an entry whose runs,
\* correct, total and totalTimeMs are the aggregate of the player's Answers
\* in the ledger.
C29_NoDrift ==
    (/\ \A h \in Handlers : pc[h] = "idle"
     /\ \E l \in log : l.op = "submit" /\ l.outcome = "ok") =>
        \A p \in players : ~p.left =>
            LET s == PlayerScoreOf(p.id, ledger) IN
            /\ EntriesOf(state, p.id) # {}
            /\ \A e \in EntriesOf(state, p.id) :
                  /\ e.runs = s.runs /\ e.correct = s.correct
                  /\ e.total = s.total /\ e.totalTimeMs = s.totalTimeMs

\* C30: when the reveal of a closest question completes with no other
\* handler mid-way, the stored leaderboard entry of every player whose Answer
\* it amended to correct has the runs and the correct count of the player's
\* Answers in the ledger.
C30_AmendmentsReachLeaderboard ==
    [][\A h \in Handlers :
          (ClosestRevealDone(h) /\ \A g \in Handlers \ {h} : pc[g] = "idle") =>
          \A a \in {x \in ledger' : x.id \in tmp[h].closestAnswerIds} :
              (\E p \in players : p.id = a.playerId /\ ~p.left) =>
                  LET s == PlayerScoreOf(a.playerId, ledger') IN
                  /\ EntriesOf(state', a.playerId) # {}
                  /\ \A e \in EntriesOf(state', a.playerId) :
                        e.runs = s.runs /\ e.correct = s.correct]_vars

\* the players who have not left
ActiveIds == {p.id : p \in {x \in players : ~x.left}}

\* the players no other player outranks by the ledger's aggregates
RankFirst(rows) ==
    {p \in ActiveIds : \A q \in ActiveIds :
        Compare(PlayerScoreOf(p, rows), PlayerScoreOf(q, rows)) <= 0}

\* C31: the mvp of the match:end event is a player who has not left and
\* whom nobody outranks by the ledger (runs, then lower total time), and is
\* empty only when no player is in the match.
C31_MvpIsRankFirst ==
    [][\A e \in emitted' \ emitted :
          e.type = "match:end" =>
              IF ActiveIds = {} THEN e.mvp = None
              ELSE IsSome(e.mvp) /\ Get(e.mvp) \in RankFirst(ledger)]_vars

\* C32: no step of the reveal of a question that is not a closest question
\* removes or alters a row of the ledger, and every entry of the playerResults
\* it broadcasts reports the correctness and the runs of that player's Answer
\* of the question as the submission stored them.
C32_OrdinaryRevealReadsOnly ==
    [][\A h \in Handlers :
          (/\ pc'[h] # pc[h]
           /\ (req[h].op = "reveal" \/ req'[h].op = "reveal")
           /\ pack[state.inning + 1][state.questionIdx + 1].type # "closest") =>
              /\ ledger' = ledger
              /\ \A e \in emitted' \ emitted :
                    e.type = "question:reveal" =>
                        \A r \in e.playerResults :
                            \E a \in AnswersOf(ledger, tmp[h].inningIdx,
                                               tmp[h].questionIdx) :
                                /\ a.playerId = r.playerId
                                /\ r.isCorrect = a.isCorrect
                                /\ r.runsAwarded = RunsOf(a)]_vars

\* a reveal broadcast the grand slam of one player and the miss of another
C32_Witness ==
    \E e \in emitted :
        /\ e.type = "question:reveal"
        /\ \E r \in e.playerResults : r.isCorrect /\ r.runsAwarded = 4
        /\ \E r \in e.playerResults : ~r.isCorrect /\ r.runsAwarded = 0
        /\ Cardinality(ledger) = 2

\* C33: for each question at most one question:reveal is ever broadcast.
C33_RevealOncePerQuestion ==
    \A e, f \in emitted :
        (/\ e.type = "question:reveal" /\ f.type = "question:reveal"
         /\ e.questionId = f.questionId) => e = f

\* C34: a join whose nickname is that of a player record of the match
\* creates no record, and never rebinds a record that has not left and is
\* held by a socket.
C34_ReconnectOnlyWhenFree ==
    [][\A h \in Handlers :
          (req[h].op = "join" /\ pc'[h] # pc[h]) =>
              LET same == {p \in players : p.nickname = req[h].nickname}
                  held == {p \in same : ~p.left /\ p.socketId # NoSocket}
              IN  /\ same # {} => {p.id : p \in players'} = {p.id : p \in players}
                  /\ \A p \in held : p \in players']_vars

\* what pause and resume leave alone
SameButDeadline(s, t) ==
    /\ t.phase = s.phase /\ t.inning = s.inning /\ t.questionIdx = s.questionIdx
    /\ t.question = s.question /\ t.lineScore = s.lineScore
    /\ t.leaderboard = s.leaderboard /\ t.players = s.players

\* C35: no step of a pause or a resume changes the persisted phase, inning,
\* questionIdx, question, lineScore, leaderboard or players; the save of a
\* resume in phase question stores the deadline now + timerSec computed by
\* that resume, and in any other phase leaves the deadline as it was.
C35_PauseResumeFrame ==
    [][\A h \in Handlers :
          (/\ pc'[h] # pc[h]
           /\ req[h].op \in {"pause", "resume"} \/ req'[h].op \in {"pause", "resume"}) =>
              /\ SameButDeadline(state, state')
              /\ (pc[h] = "resume_del" /\ mem[h].phase = "question"
                     /\ pc'[h] = "resume_save") =>
                    mem'[h].endsAt = Some(now + settings.timerSec * 1000)
              /\ IF pc[h] = "resume_save" /\ state.phase = "question"
                 THEN state'.endsAt = mem[h].endsAt
                 ELSE state'.endsAt = state.endsAt]_vars

C37_RosterConsistent ==
    (\A h \in Handlers : pc[h] = "idle") =>
        /\ {state.players[i].id : i \in 1..Len(state.players)} = ActiveIds
        /\ \A i, j \in 1..Len(state.players) :
              state.players[i].id = state.players[j].id => i = j

\* C38: no step of a submission, a join, a leave or a resume changes the
\* persisted phase, inning, questionIdx or question.
C38_NonTransitionsKeepPosition ==
    [][\A h \in Handlers :
          (req[h].op \in {"submit", "join", "leave", "resume"} /\ pc'[h] # pc[h]) =>
              /\ state'.phase = state.phase
              /\ state'.inning = state.inning
              /\ state'.questionIdx = state.questionIdx
              /\ state'.question = state.question]_vars

\* C39: no write of the blob moves (inning, questionIdx) backwards in
\* lexicographic order.
C39_ProgressMonotonic ==
    [][\/ state'.inning > state.inning
       \/ state'.inning = state.inning /\ state'.questionIdx >= state.questionIdx]_vars

\* C40: the step in which a join fails leaves the blob as it was, and the
\* MatchPlayer table holds no record created by the failed join and none
\* rebound to its socket.
C40_FailedJoinChangesNothing ==
    [][\A l \in log' \ log :
          (l.op = "join" /\ l.outcome # "ok") =>
              /\ state' = state
              /\ \A p \in players' : /\ p.id # NewPlayerId(l.cmd)
                                      /\ p.socketId # SocketOf(l.cmd)]_vars

\* ---------------------------------------------------------- specifications
HostStep(h) ==
    \/ StartLoad(h) \/ StartUpdate(h) \/ StartSave(h)
    \/ SkipLoad(h) \/ NqLoad(h) \/ NqSave(h)
    \/ EndLoad(h) \/ EndSave(h) \/ EndUpdate(h)
    \/ StretchLoad(h) \/ TsLoad(h) \/ TsSave(h) \/ TimerFire(h)
    \/ RevealLoad(h) \/ RvClosestRead(h) \/ RvClosestWrite(h) \/ RvAnswers(h)
    \/ RvLine(h) \/ RvSave(h)
    \/ PauseLoad(h) \/ PauseSet(h) \/ ResumeLoad(h) \/ ResumeDel(h) \/ ResumeSave(h)

PlayerStep(h) ==
    \/ SubmitBegin(h) \/ SubGrandSlam(h) \/ SubCreate(h) \/ SubCache(h)
    \/ SubPlayers(h) \/ SubScoreRead(h) \/ SubLbLoad(h) \/ SubLbSave(h)

JoinStep(h) ==
    \/ JoinBegin(h) \/ JoinFind(h) \/ JoinCreate(h) \/ RcUpdate(h)
    \/ JoinLoad(h) \/ JoinSave(h)
    \/ LeaveUpdate(h) \/ LeaveLoad(h) \/ LeaveSave(h)

Next ==
    \/ \E h \in Handlers : HostStep(h) \/ PlayerStep(h) \/ JoinStep(h)
    \/ Tick

Spec == Init /\ [][Next]_vars

\* The host's commands and the stretch timer, under the default settings
\* (DEFAULT_MATCH_SETTINGS: grand slam on, speed bonus off), over packs of
\* fewer than 8 innings and no closest question: nextQuestion never reaches
\* triggerStretch and reveal never reaches handleClosestQuestion.
InitHost ==
    /\ Init
    /\ pack \in {PackMain, PackBlank, PackBad, PackSolo}
    /\ settings.grandSlam /\ ~settings.speedBonus
    /\ sender = HostUser

NextHost ==
    \/ \E h \in Handlers :
          \/ StartLoad(h) \/ StartUpdate(h) \/ StartSave(h)
          \/ SkipLoad(h) \/ NqLoad(h) \/ NqSave(h)
          \/ EndLoad(h) \/ EndSave(h) \/ EndUpdate(h)
          \/ StretchLoad(h) \/ TsSave(h) \/ TimerFire(h)
          \/ RevealLoad(h) \/ RvAnswers(h) \/ RvLine(h) \/ RvSave(h)
          \/ PauseLoad(h) \/ PauseSet(h)
          \/ ResumeLoad(h) \/ ResumeDel(h) \/ ResumeSave(h)
    \/ Tick

SpecHost == InitHost /\ [][NextHost]_vars

\* Submissions around the start of a one-question match, under every
\* combination of the bonus settings.
InitSubmit == Init /\ pack = PackSolo /\ sender = HostUser

NextSubmit ==
    \/ \E h \in Handlers : StartLoad(h) \/ StartUpdate(h) \/ StartSave(h)
    \/ \E h \in Handlers : PlayerStep(h)

SpecSubmit == InitSubmit /\ [][NextSubmit]_vars

\* The same with the clock running, speed bonus on and grand slam off.
InitLatency == InitSubmit /\ settings.speedBonus /\ ~settings.grandSlam

NextLatency == NextSubmit \/ Tick

SpecLatency == InitLatency /\ [][NextLatency]_vars

\* A one-question match whose question is a closest question: start,
\* submissions and reveal, under the default settings.
InitClosest ==
    /\ Init
    /\ pack = PackClosest
    /\ settings.grandSlam /\ ~settings.speedBonus
    /\ sender = HostUser

NextClosest ==
    \E h \in Handlers :
        \/ StartLoad(h) \/ StartUpdate(h) \/ StartSave(h)
        \/ PlayerStep(h)
        \/ RevealLoad(h) \/ RvClosestRead(h) \/ RvClosestWrite(h)
        \/ RvAnswers(h) \/ RvLine(h) \/ RvSave(h)

SpecClosest == InitClosest /\ [][NextClosest]_vars

\* The blob as startMatch and nextQuestion leave it with question (i, j) of
\* the pack on show, the deadline counted from time 0.
Showing(pk, st, i, j) ==
    [InitialState(pk) EXCEPT
        !.phase = "question", !.inning = i, !.questionIdx = j,
        !.question = Some(formatQuestion(MatchId, pk[i + 1][j + 1], i, j, st.timerSec)),
        !.endsAt = Some(st.timerSec * 1000),
        !.players = [p \in 1..NumPlayers |->
                        [id |-> p, nickname |-> p, socketId |-> p]]]

\* A match of seven or eight innings in progress, the question of inning
\* index 5 or 6 on show: the host advances, the stretch timer runs.
InitStretch ==
    /\ pack \in {PackSeven, PackEight}
    /\ settings = [grandSlam |-> TRUE, speedBonus |-> FALSE, timerSec |-> 5]
    /\ sender = HostUser
    /\ expired = FALSE
    /\ match = [status |-> "IN_PROGRESS", startedAt |-> Some(0), endedAt |-> None]
    /\ \E i \in {5, 6} : state = Showing(pack, settings, i, 0)
    /\ paused = FALSE
    /\ ledger = {}
    /\ cache = {}
    /\ players = {PlayerRow(p) : p \in Players}
    /\ timers = {}
    /\ emitted = {}
    /\ now = 0
    /\ ticks = 0
    /\ issued = 0
    /\ pc = [h \in Handlers |-> "idle"]
    /\ req = [h \in Handlers |-> NoReq]
    /\ mem = [h \in Handlers |-> InitialState(pack)]
    /\ tmp = [h \in Handlers |-> NoTmp]
    /\ log = {}

AdvanceStep(h) ==
    \/ SkipLoad(h) \/ NqLoad(h) \/ NqSave(h)
    \/ EndLoad(h) \/ EndSave(h) \/ EndUpdate(h)
    \/ TsLoad(h) \/ TsSave(h) \/ TimerFire(h)

NextStretch ==
    \/ \E h \in Handlers : AdvanceStep(h)
    \/ Tick

SpecStretch == InitStretch /\ [][NextStretch]_vars

\* The same where every handler that can take a step eventually does, every
\* due timer eventually fires and time passes.
SpecStretchFair ==
    /\ SpecStretch
    /\ \A h \in Handlers : WF_vars(AdvanceStep(h))
    /\ WF_vars(Tick)

\* A one-question match in progress with its question on show: the players
\* submit.
InitRound ==
    /\ pack = PackSolo
    /\ settings = [grandSlam |-> TRUE, speedBonus |-> FALSE, timerSec |-> 5]
    /\ sender = HostUser
    /\ expired = FALSE
    /\ match = [status |-> "IN_PROGRESS", startedAt |-> Some(0), endedAt |-> None]
    /\ state = Showing(pack, settings, 0, 0)
    /\ paused = FALSE
    /\ ledger = {}
    /\ cache = {}
    /\ players = {PlayerRow(p) : p \in Players}
    /\ timers = {}
    /\ emitted = {}
    /\ now = 0
    /\ ticks = 0
    /\ issued = 0
    /\ pc = [h \in Handlers |-> "idle"]
    /\ req = [h \in Handlers |-> NoReq]
    /\ mem = [h \in Handlers |-> InitialState(pack)]
    /\ tmp = [h \in Handlers |-> NoTmp]
    /\ log = {}

NextRound == \E h \in Handlers : PlayerStep(h)

SpecRound == InitRound /\ [][NextRound]_vars

\* The same with the host revealing the answer.
NextReveal ==
    \E h \in Handlers :
        \/ PlayerStep(h)
        \/ RevealLoad(h) \/ RvAnswers(h) \/ RvLine(h) \/ RvSave(h)

SpecReveal == InitRound /\ [][NextReveal]_vars

\* The same with the host advancing past the last question: the match ends.
NextFinal ==
    \E h \in Handlers :
        \/ PlayerStep(h)
        \/ SkipLoad(h) \/ NqLoad(h) \/ EndLoad(h) \/ EndSave(h) \/ EndUpdate(h)

SpecFinal == InitRound /\ [][NextFinal]_vars

\* A one-inning match of one player with its second question, a closest
\* question, on show: submissions for either question, and the host reveals.
InitMixed ==
    /\ pack = PackMixed
    /\ settings = [grandSlam |-> TRUE, speedBonus |-> FALSE, timerSec |-> 5]
    /\ sender = HostUser
    /\ expired = FALSE
    /\ match = [status |-> "IN_PROGRESS", startedAt |-> Some(0), endedAt |-> None]
    /\ state = [Showing(pack, settings, 0, 1) EXCEPT
                   !.players = <<[id |-> 1, nickname |-> 1, socketId |-> 1]>>]
    /\ paused = FALSE
    /\ ledger = {}
    /\ cache = {}
    /\ players = {PlayerRow(1)}
    /\ timers = {}
    /\ emitted = {}
    /\ now = 0
    /\ ticks = 0
    /\ issued = 0
    /\ pc = [h \in Handlers |-> "idle"]
    /\ req = [h \in Handlers |-> NoReq]
    /\ mem = [h \in Handlers |-> InitialState(pack)]
    /\ tmp = [h \in Handlers |-> NoTmp]
    /\ log = {}

NextMixed ==
    \E h \in Handlers :
        \/ PlayerStep(h)
        \/ RevealLoad(h) \/ RvClosestRead(h) \/ RvClosestWrite(h)
        \/ RvAnswers(h) \/ RvLine(h) \/ RvSave(h)

SpecMixed == InitMixed /\ [][NextMixed]_vars

\* Players joining and leaving a match in the lobby.
InitJoin ==
    /\ Init
    /\ pack = PackSolo
    /\ settings.grandSlam /\ ~settings.speedBonus
    /\ sender = HostUser

NextJoin == \E h \in Handlers : JoinStep(h)

SpecJoin == InitJoin /\ [][NextJoin]_vars

\* Joins and leaves for a match in the lobby or completed, whose blob is
\* there or has expired.
InitGone ==
    /\ pack = PackSolo
    /\ settings = [grandSlam |-> TRUE, speedBonus |-> FALSE, timerSec |-> 5]
    /\ sender = HostUser
    /\ expired \in BOOLEAN
    /\ match \in {[status |-> "LOBBY", startedAt |-> None, endedAt |-> None],
                  [status |-> "COMPLETED", startedAt |-> Some(0), endedAt |-> Some(0)]}
    /\ state = [InitialState(pack) EXCEPT
                   !.phase = IF match.status = "LOBBY" THEN "lobby" ELSE "postgame",
                   !.players = [i \in 1..NumPlayers |->
                                   [id |-> i, nickname |-> i, socketId |-> i]]]
    /\ paused = FALSE
    /\ ledger = {}
    /\ cache = {}
    /\ players = {PlayerRow(p) : p \in Players}
    /\ timers = {}
    /\ emitted = {}
    /\ now = 0
    /\ ticks = 0
    /\ issued = 0
    /\ pc = [h \in Handlers |-> "idle"]
    /\ req = [h \in Handlers |-> NoReq]
    /\ mem = [h \in Handlers |-> InitialState(pack)]
    /\ tmp = [h \in Handlers |-> NoTmp]
    /\ log = {}

SpecGone == InitGone /\ [][NextJoin]_vars

\* Players joining and leaving while the host starts the match.
NextLobby ==
    \E h \in Handlers :
        \/ StartLoad(h) \/ StartUpdate(h) \/ StartSave(h)
        \/ JoinStep(h)

SpecLobby == InitJoin /\ [][NextLobby]_vars

\* The host's commands sent from the socket of a user who is not the host.
InitAuth ==
    /\ Init
    /\ pack \in {PackMain, PackBlank, PackBad, PackSolo}
    /\ settings.grandSlam /\ ~settings.speedBonus
    /\ sender # HostUser

SpecAuth == InitAuth /\ [][NextHost]_vars

====
